---- MODULE Spec2Model ----
(***************************************************************************)
(* HarmWatch: the CSV loader and the explorers of utils.py, and the        *)
(* dashboard script app.py, as state machines.                             *)
(*                                                                         *)
(* Text is a sequence of one-character strings.  A column name is a        *)
(* sequence of dot-separated parts: <<"a">> is "a", <<"a","1">> is "a.1".  *)
(***************************************************************************)
EXTENDS Integers, Sequences, FiniteSets, TLC

VARIABLES
    \* load_data (utils.py) and its st.cache_data memo
    uploaded_file, cache, loadPc, attempts, callKey, loadDf, results,
    \* the dashboard script app.py
    appCsv, appPc, appDf, appLoaded, appRan, appFailed, appError,
    \* show_overview and show_missing
    ovCsv, ovPc, ovDf, overview, missing,
    \* show_time_series
    tsDf, tsPc, datetime_cols, dt_col, df_dt, val_col, window, rolling, tsMsg,
    \* show_categorical
    catCol, catPc, top_n, cat_counts, samples,
    \* show_text_analysis
    textCol, textPc, sample_text, words, top

loadVars == <<uploaded_file, cache, loadPc, attempts, callKey, loadDf, results>>
appVars == <<appCsv, appPc, appDf, appLoaded, appRan, appFailed, appError>>
ovVars == <<ovCsv, ovPc, ovDf, overview, missing>>
tsVars == <<tsDf, tsPc, datetime_cols, dt_col, df_dt, val_col, window, rolling, tsMsg>>
catVars == <<catCol, catPc, top_n, cat_counts, samples>>
textVars == <<textCol, textPc, sample_text, words, top>>
vars == <<loadVars, appVars, ovVars, tsVars, catVars, textVars>>

\* each entry point leaves the state of the others alone
LoadOnly == UNCHANGED <<appVars, ovVars, tsVars, catVars, textVars>>
AppOnly == UNCHANGED <<loadVars, ovVars, tsVars, catVars, textVars>>
OvOnly == UNCHANGED <<loadVars, appVars, tsVars, catVars, textVars>>
TsOnly == UNCHANGED <<loadVars, appVars, ovVars, catVars, textVars>>
CatOnly == UNCHANGED <<loadVars, appVars, ovVars, tsVars, textVars>>
TextOnly == UNCHANGED <<loadVars, appVars, ovVars, tsVars, catVars>>

(***************************************************************************)
(* Bounds of the model                                                     *)
(***************************************************************************)
MaxCols == 4
MaxDataLines == 2
MaxCalls == 2
AppRows == 1
MaxOvRows == 2
MaxRollRows == 3
MaxTail == 2
MaxWindow == 4
MaxCatRows == 5
MaxTopN == 4
MaxTextCells == 2
MaxCellLen == 3

(***************************************************************************)
(* Generic helpers                                                         *)
(***************************************************************************)
Range(s) == {s[i] : i \in 1..Len(s)}
SeqsUpTo(S, lo, hi) == UNION {[1..n -> S] : n \in lo..hi}
IsPrefix(p, s) == Len(p) <= Len(s) /\ SubSeq(s, 1, Len(p)) = p

(***************************************************************************)
(* load_data: duplicate column names                                       *)
(***************************************************************************)
HeaderNames == {<<"a">>, <<"a", "1">>, <<"b">>}

\* str(cur_count) inside f"{col}.{cur_count}"
CountText == <<"1", "2", "3", "4", "5", "6", "7", "8", "9">>

\* counts = defaultdict(int)
CountsGet(counts, k) == IF k \in DOMAIN counts THEN counts[k] ELSE 0
CountsPut(counts, k, v) ==
    [x \in (DOMAIN counts) \cup {k} |-> IF x = k THEN v ELSE counts[x]]

\* the inner "while cur_count > 0" loop of _maybe_dedup_names
RECURSIVE DedupWhile(_, _, _)
DedupWhile(col, cur_count, counts) ==
    IF cur_count > 0
    THEN LET counts1 == CountsPut(counts, col, cur_count + 1)
             col1 == Append(col, CountText[cur_count])
         IN  DedupWhile(col1, CountsGet(counts1, col1), counts1)
    ELSE [col |-> col, cur_count |-> cur_count, counts |-> counts]

\* the "for i, col in enumerate(names)" loop of _maybe_dedup_names
RECURSIVE DedupFor(_, _, _)
DedupFor(names, i, counts) ==
    IF i > Len(names)
    THEN names
    ELSE LET r == DedupWhile(names[i], CountsGet(counts, names[i]), counts)
         IN  DedupFor([names EXCEPT ![i] = r.col], i + 1,
                      CountsPut(r.counts, r.col, r.cur_count + 1))

\* mangle_dupe_cols switched off: the names come back as they are
MaybeDedupNames_NoMangle(names) == names

\* ParserBase({'names': ...})._maybe_dedup_names(names)
MaybeDedupNames(names) == DedupFor(names, 1, << >>)

(***************************************************************************)
(* load_data: the input, pd.read_csv, the memo                             *)
(***************************************************************************)
\* A data line is plain ASCII ("ok"), holds a byte that is not valid UTF-8
\* but is valid Latin-1 ("hi"), or cannot be tokenized at all ("bad").
LineKinds == {"ok", "hi", "bad"}

DataFields(kind, w) == [i \in 1..w |-> IF kind = "hi" THEN <<"e9">> ELSE <<"v">>]

\* the lines of the file, the header line first
FileLines(f) ==
    <<[kind |-> "ok", fields |-> f.header]>> \o
    [i \in 1..Len(f.rows) |->
        [kind |-> f.rows[i], fields |-> DataFields(f.rows[i], Len(f.header))]]

\* what one pd.read_csv call sees: a path is opened afresh, a handle is read
\* from its current position
Remaining(f) ==
    IF f.kind = "path"
    THEN FileLines(f)
    ELSE SubSeq(FileLines(f), f.pos + 1, Len(FileLines(f)))

Offending(line, encoding) ==
    line.kind = "bad" \/ (encoding = "utf-8" /\ line.kind = "hi")

FirstOffending(lines, encoding) ==
    IF \E i \in 1..Len(lines) : Offending(lines[i], encoding)
    THEN CHOOSE i \in 1..Len(lines) :
            /\ Offending(lines[i], encoding)
            /\ \A j \in 1..(i - 1) : ~Offending(lines[j], encoding)
    ELSE 0

\* the frame pd.read_csv builds from lines: the first line is the header,
\* whose names the parser mangles (mangle_dupe_cols=True); raw keeps the
\* header line as read
ParseLines(lines) ==
    [columns |-> MaybeDedupNames(lines[1].fields),
     rows |-> [i \in 1..(Len(lines) - 1) |-> lines[i + 1].fields],
     raw |-> lines[1].fields]

NoFrame == [columns |-> << >>, rows |-> << >>, raw |-> << >>]

\* pd.read_csv(uploaded_file, encoding=...): the outcomes.  A failed read of
\* a handle leaves it wherever the buffered reader stopped, at or after the
\* offending line.
ReadCsv(f, encoding) ==
    LET lines == Remaining(f)
        total == Len(FileLines(f))
        k == FirstOffending(lines, encoding)
    IN  IF lines = << >>
        THEN {[ok |-> FALSE, df |-> NoFrame, pos |-> f.pos]}
        ELSE IF k > 0
        THEN IF f.kind = "path"
             THEN {[ok |-> FALSE, df |-> NoFrame, pos |-> f.pos]}
             ELSE {[ok |-> FALSE, df |-> NoFrame, pos |-> p] :
                        p \in (f.pos + k)..total}
        ELSE {[ok |-> TRUE, df |-> ParseLines(lines),
               pos |-> IF f.kind = "path" THEN f.pos ELSE total]}

\* st.cache_data's key of the argument: a str by its value, a file-like
\* object by its name, tell() and content
CacheKey(f) == [kind |-> f.kind, tell |-> IF f.kind = "path" THEN 0 ELSE f.pos]

Cached(key) == {e \in cache : e.key = key}

LoadStart ==
    /\ \E kind \in {"path", "handle"},
          header \in SeqsUpTo(HeaderNames, 1, MaxCols),
          rows \in SeqsUpTo(LineKinds, 0, MaxDataLines) :
            uploaded_file = [kind |-> kind, header |-> header, rows |-> rows, pos |-> 0]
    /\ cache = {}
    /\ loadPc = "idle"
    /\ attempts = 0
    /\ callKey = CacheKey([kind |-> "path", pos |-> 0])
    /\ loadDf = NoFrame
    /\ results = << >>

\* load_data(uploaded_file) with the value already memoized
CallCacheHit ==
    /\ loadPc = "idle"
    /\ Len(results) < MaxCalls
    /\ Cached(CacheKey(uploaded_file)) # {}
    /\ \E e \in Cached(CacheKey(uploaded_file)) :
            results' = Append(results, [status |-> "table", df |-> e.value, attempts |-> 0])
    /\ UNCHANGED <<uploaded_file, cache, loadPc, attempts, callKey, loadDf>>
    /\ LoadOnly

\* load_data(uploaded_file) not memoized: the body runs
CallCacheMiss ==
    /\ loadPc = "idle"
    /\ Len(results) < MaxCalls
    /\ Cached(CacheKey(uploaded_file)) = {}
    /\ callKey' = CacheKey(uploaded_file)
    /\ attempts' = 0
    /\ loadDf' = NoFrame
    /\ loadPc' = "try_default"
    /\ UNCHANGED <<uploaded_file, cache, results>>
    /\ LoadOnly

\* try: df = pd.read_csv(uploaded_file)
ReadDefault ==
    /\ loadPc = "try_default"
    /\ \E r \in ReadCsv(uploaded_file, "utf-8") :
        /\ uploaded_file' = [uploaded_file EXCEPT !.pos = r.pos]
        /\ attempts' = attempts + 1
        /\ loadDf' = r.df
        /\ loadPc' = IF r.ok THEN "dedup" ELSE "try_latin1"
    /\ UNCHANGED <<cache, callKey, results>>
    /\ LoadOnly

\* except Exception: df = pd.read_csv(uploaded_file, encoding="latin1")
ReadLatin1 ==
    /\ loadPc = "try_latin1"
    /\ \E r \in ReadCsv(uploaded_file, "latin1") :
        /\ uploaded_file' = [uploaded_file EXCEPT !.pos = r.pos]
        /\ attempts' = attempts + 1
        /\ loadDf' = r.df
        /\ IF r.ok
           THEN /\ loadPc' = "dedup"
                /\ results' = results
           ELSE /\ loadPc' = "idle"
                /\ results' = Append(results,
                        [status |-> "error", df |-> NoFrame, attempts |-> attempts + 1])
    /\ UNCHANGED <<cache, callKey>>
    /\ LoadOnly

\* df.columns = ..._maybe_dedup_names(df.columns); return df (and memoize it)
DedupColumns ==
    /\ loadPc = "dedup"
    /\ LET df == [loadDf EXCEPT !.columns = MaybeDedupNames(loadDf.columns)]
       IN  /\ loadDf' = df
           /\ results' = Append(results,
                    [status |-> "table", df |-> df, attempts |-> attempts])
           /\ cache' = cache \cup {[key |-> callKey, value |-> df]}
    /\ loadPc' = "idle"
    /\ UNCHANGED <<uploaded_file, attempts, callKey>>
    /\ LoadOnly

\* no upload is being loaded (the other entry points are exercised)
LoadOff ==
    /\ uploaded_file = [kind |-> "path", header |-> << >>, rows |-> << >>, pos |-> 0]
    /\ cache = {}
    /\ loadPc = "off"
    /\ attempts = 0
    /\ callKey = CacheKey([kind |-> "path", pos |-> 0])
    /\ loadDf = NoFrame
    /\ results = << >>

(***************************************************************************)
(* pd.read_csv: the cells and the dtype of a column                        *)
(***************************************************************************)
\* a CSV field is a number, some other text, or empty
RawFields == {"1", "2", "abc", ""}
NumericText == {"1", "2"}

\* a cell is <<kind, text>>: a number, a string, or the missing-value marker
NaN == <<"nan", "">>
IsNull(cell) == cell = NaN

\* the parser's type inference: a column whose non-empty fields are all
\* numeric becomes numeric, any other column keeps its fields as strings;
\* an empty field is NaN
InferColumn(fields) ==
    LET numeric == \A i \in 1..Len(fields) : fields[i] \in NumericText \cup {""}
    IN  [i \in 1..Len(fields) |->
            IF fields[i] = "" THEN NaN
            ELSE IF numeric THEN <<"num", fields[i]>>
            ELSE <<"str", fields[i]>>]

\* df[c].dtype (a frame without rows has object columns)
Dtype(cells) ==
    IF Len(cells) = 0 \/ \E i \in 1..Len(cells) : cells[i][1] = "str" THEN "object"
    ELSE IF \E i \in 1..Len(cells) : IsNull(cells[i]) THEN "float64"
    ELSE "int64"

IsNumberDtype(dtype) == dtype \in {"int64", "float64"}

\* the number a numeric text stands for
NumValue(text) ==
    CASE text = "1" -> 1 [] text = "2" -> 2 [] text = "3" -> 3
      [] text = "4" -> 4 [] text = "5" -> 5 [] OTHER -> 0

(***************************************************************************)
(* app.py                                                                  *)
(***************************************************************************)
AppColumns == {"sentiment", "likes", "comments", "shares"}

\* the statements of the try block, in order
AppSteps == <<
    [name |-> "read_csv", kind |-> "load"],
    [name |-> "sentiment", kind |-> "coerce"],
    [name |-> "likes", kind |-> "coerce"],
    [name |-> "comments", kind |-> "coerce"],
    [name |-> "shares", kind |-> "coerce"],
    [name |-> "analyze_echo_chambers", kind |-> "component"],
    [name |-> "analyze_polarization", kind |-> "component"],
    [name |-> "analyze_algorithmic_bias", kind |-> "component"],
    [name |-> "analyze_misinformation", kind |-> "component"],
    [name |-> "analyze_network_structure", kind |-> "component"],
    [name |-> "bias_scores", kind |-> "render"],
    [name |-> "compute_overall_health_score", kind |-> "component"],
    [name |-> "summary_metrics", kind |-> "render"],
    [name |-> "plot_sentiment_distribution", kind |-> "component"],
    [name |-> "plot_topic_polarization", kind |-> "component"],
    [name |-> "plot_engagement_by_category", kind |-> "component"],
    [name |-> "plot_virality_by_category", kind |-> "component"],
    [name |-> "plot_temporal_content_spread", kind |-> "component"],
    [name |-> "plot_user_content_diversity", kind |-> "component"],
    [name |-> "plot_category_distribution", kind |-> "component"],
    [name |-> "plot_health_scores", kind |-> "component"] >>

AppDone == Len(AppSteps) + 1
AppComponents == {AppSteps[i].name : i \in {j \in 1..Len(AppSteps) : AppSteps[j].kind = "component"}}
AppAt(kind) == appPc \in 1..Len(AppSteps) /\ AppSteps[appPc].kind = kind

\* pd.to_numeric(column, errors='coerce')
ToNumeric(cells) ==
    [i \in 1..Len(cells) |->
        IF cells[i][1] = "str"
        THEN IF cells[i][2] \in NumericText THEN <<"num", cells[i][2]>> ELSE NaN
        ELSE cells[i]]

NoTable == [c \in {} |-> << >>]

AppStart ==
    /\ \E present \in SUBSET AppColumns :
       \E raw \in [present -> [1..AppRows -> RawFields]] :
       \E ok \in BOOLEAN :
            /\ (~ok => present = {})
            /\ appCsv = [ok |-> ok, raw |-> raw]
    /\ appPc = 1
    /\ appDf = NoTable
    /\ appLoaded = NoTable
    /\ appRan = {}
    /\ appFailed = {}
    /\ appError = FALSE

AppOff ==
    /\ appCsv = [ok |-> FALSE, raw |-> NoTable]
    /\ appPc = 0
    /\ appDf = NoTable
    /\ appLoaded = NoTable
    /\ appRan = {}
    /\ appFailed = {}
    /\ appError = FALSE

\* df = pd.read_csv(uploaded_file)
AppReadCsv ==
    /\ AppAt("load")
    /\ appCsv.ok
    /\ appDf' = [c \in DOMAIN appCsv.raw |-> InferColumn(appCsv.raw[c])]
    /\ appLoaded' = appDf'
    /\ appPc' = appPc + 1
    /\ UNCHANGED <<appCsv, appRan, appFailed, appError>>
    /\ AppOnly

\* pd.read_csv raises: except Exception -> st.error("Error loading file")
AppReadCsvFails ==
    /\ AppAt("load")
    /\ ~appCsv.ok
    /\ appError' = TRUE
    /\ appPc' = AppDone
    /\ UNCHANGED <<appCsv, appDf, appLoaded, appRan, appFailed>>
    /\ AppOnly

\* df[c] = pd.to_numeric(df[c], errors='coerce')
AppToNumeric ==
    /\ AppAt("coerce")
    /\ AppSteps[appPc].name \in DOMAIN appDf
    /\ appDf' = [appDf EXCEPT ![AppSteps[appPc].name] = ToNumeric(@)]
    /\ appPc' = appPc + 1
    /\ UNCHANGED <<appCsv, appLoaded, appRan, appFailed, appError>>
    /\ AppOnly

\* df[c] of a column the upload does not have: KeyError, caught by the except
AppKeyError ==
    /\ AppAt("coerce")
    /\ AppSteps[appPc].name \notin DOMAIN appDf
    /\ appError' = TRUE
    /\ appPc' = AppDone
    /\ UNCHANGED <<appCsv, appDf, appLoaded, appRan, appFailed>>
    /\ AppOnly

\* an analysis or plotting component returns and its output is used
AppComponentReturns ==
    /\ AppAt("component")
    /\ appRan' = appRan \cup {AppSteps[appPc].name}
    /\ appPc' = appPc + 1
    /\ UNCHANGED <<appCsv, appDf, appLoaded, appFailed, appError>>
    /\ AppOnly

\* an analysis or plotting component raises: the one except clause of the
\* script catches it and nothing after it in the try block runs
AppComponentRaises ==
    /\ AppAt("component")
    /\ appFailed' = appFailed \cup {AppSteps[appPc].name}
    /\ appError' = TRUE
    /\ appPc' = AppDone
    /\ UNCHANGED <<appCsv, appDf, appLoaded, appRan>>
    /\ AppOnly

\* the statements that only compute from the results or render them
AppRender ==
    /\ AppAt("render")
    /\ appRan' = appRan \cup {AppSteps[appPc].name}
    /\ appPc' = appPc + 1
    /\ UNCHANGED <<appCsv, appDf, appLoaded, appFailed, appError>>
    /\ AppOnly

(***************************************************************************)
(* show_overview and show_missing                                          *)
(***************************************************************************)
\* the columns of the uploaded table, in file order
OvColumns == <<"x", "y">>

NullCount(cells) == Cardinality({i \in 1..Len(cells) : IsNull(cells[i])})
NonNull(cells) == {i \in 1..Len(cells) : ~IsNull(cells[i])}

RECURSIVE SumOver(_, _)
SumOver(cells, idx) ==
    IF idx = {} THEN 0
    ELSE LET i == CHOOSE j \in idx : TRUE
         IN  NumValue(cells[i][2]) + SumOver(cells, idx \ {i})

\* a sequence of [name, count] records sorted by count, largest first, equal
\* counts in their original order
InsertDesc(sorted, e) ==
    LET k == Cardinality({i \in 1..Len(sorted) : sorted[i].count >= e.count})
    IN  SubSeq(sorted, 1, k) \o <<e>> \o SubSeq(sorted, k + 1, Len(sorted))

RECURSIVE SortCountsDesc(_)
SortCountsDesc(s) ==
    IF s = << >> THEN << >>
    ELSE InsertDesc(SortCountsDesc(SubSeq(s, 1, Len(s) - 1)), s[Len(s)])

\* df.select_dtypes(include=[np.number]): the numeric columns, in order
NumberColumns(df) ==
    LET keep(c) == IsNumberDtype(Dtype(df[c]))
    IN  SelectSeq(OvColumns, keep)

\* one row of num.describe().T: count, mean (as sum over count), min, max;
\* the statistics of a column without values are NaN
Describe(c, cells) ==
    LET idx == NonNull(cells)
        vals == {NumValue(cells[i][2]) : i \in idx}
    IN  [name |-> c,
         count |-> Cardinality(idx),
         mean |-> IF idx = {} THEN NaN ELSE <<SumOver(cells, idx), Cardinality(idx)>>,
         min |-> IF idx = {} THEN NaN ELSE <<CHOOSE v \in vals : \A w \in vals : v <= w, 1>>,
         max |-> IF idx = {} THEN NaN ELSE <<CHOOSE v \in vals : \A w \in vals : v >= w, 1>>]

FrameRows(df) == Len(df[OvColumns[1]])

OvStart ==
    /\ \E n \in 0..MaxOvRows :
       \E raw \in [Range(OvColumns) -> [1..n -> RawFields]] : ovCsv = raw
    /\ ovPc = "load"
    /\ ovDf = NoTable
    /\ overview = << >>
    /\ missing = << >>

OvOff == ovCsv = NoTable /\ ovPc = "off" /\ ovDf = NoTable /\ overview = << >> /\ missing = << >>

\* df = load_data(uploaded_file): the parser types each column
OvLoad ==
    /\ ovPc = "load"
    /\ ovDf' = [c \in DOMAIN ovCsv |-> InferColumn(ovCsv[c])]
    /\ ovPc' = "overview"
    /\ UNCHANGED <<ovCsv, overview, missing>>
    /\ OvOnly

\* show_overview(df)
ShowOverview ==
    /\ ovPc = "overview"
    /\ LET num == NumberColumns(ovDf)
           empty == Len(num) = 0 \/ FrameRows(ovDf) = 0
       IN  overview' =
            [rows |-> FrameRows(ovDf),
             columns |-> Len(OvColumns),
             missing_cells |->
                Cardinality({<<c, i>> \in Range(OvColumns) \X (1..FrameRows(ovDf)) :
                                IsNull(ovDf[c][i])}),
             dtypes |-> [c \in Range(OvColumns) |->
                            [dtype |-> Dtype(ovDf[c]),
                             non_null_count |-> Cardinality(NonNull(ovDf[c]))]],
             described |-> IF empty THEN << >>
                           ELSE [i \in 1..Len(num) |-> Describe(num[i], ovDf[num[i]])],
             message |-> IF empty THEN "No numerical columns detected." ELSE ""]
    /\ ovPc' = "missing"
    /\ UNCHANGED <<ovCsv, ovDf, missing>>
    /\ OvOnly

\* miss = df.isnull().sum(); miss[miss > 0].sort_values(ascending=False)
MissingCounts(df) ==
    LET all == [i \in 1..Len(OvColumns) |->
                    [name |-> OvColumns[i], count |-> NullCount(df[OvColumns[i]])]]
        positive(e) == e.count > 0
    IN  SortCountsDesc(SelectSeq(all, positive))

\* df[df.isnull().any(axis=1)].head(10): the row numbers, in row order
HeadRows == 10
RowsWithMissing(df) ==
    LET hit == {i \in 1..FrameRows(df) : \E c \in Range(OvColumns) : IsNull(df[c][i])}
    IN  {i \in hit : Cardinality({j \in hit : j < i}) < HeadRows}

\* show_missing(df) with nothing missing
ShowMissingNone ==
    /\ ovPc = "missing"
    /\ MissingCounts(ovDf) = << >>
    /\ missing' = [chart |-> << >>, rows |-> {}, message |-> "No missing values detected."]
    /\ ovPc' = "done"
    /\ UNCHANGED <<ovCsv, ovDf, overview>>
    /\ OvOnly

\* show_missing(df) with missing cells: the chart and the sample rows
ShowMissing ==
    /\ ovPc = "missing"
    /\ MissingCounts(ovDf) # << >>
    /\ missing' = [chart |-> MissingCounts(ovDf), rows |-> RowsWithMissing(ovDf), message |-> ""]
    /\ ovPc' = "done"
    /\ UNCHANGED <<ovCsv, ovDf, overview>>
    /\ OvOnly

(***************************************************************************)
(* show_time_series                                                        *)
(***************************************************************************)
\* the columns of the table, in order: t holds dates (as text, or as
\* timestamps when its dtype is datetime64[ns]), v holds numbers
TsColumns == <<"t", "v">>
DateText == {"d0", "d1", "d2", "d3", "d4", "d5"}

\* the order of timestamps: a number is that many nanoseconds after the
\* epoch, before every date
TsOrder(text) ==
    CASE text = "1" -> 1 [] text = "2" -> 2 [] text = "3" -> 3
      [] text = "4" -> 4 [] text = "5" -> 5
      [] text = "d0" -> 10 [] text = "d1" -> 11 [] text = "d2" -> 12
      [] text = "d3" -> 13 [] text = "d4" -> 14 [] text = "d5" -> 15
      [] OTHER -> 0

Column(df, c) == [i \in 1..Len(df.rows) |-> df.rows[i][c]]

\* pd.to_datetime(text, errors="raise") of one value of the sample: text is
\* a date or it is not; whether the text of a number parses is the library's
\* choice, fixed per table
StrictParseOk(cell, num_text_parses) ==
    CASE cell[1] = "str" -> cell[2] \in DateText
      [] cell[1] = "num" -> num_text_parses
      [] OTHER -> TRUE

\* pd.to_datetime(value, errors="coerce") of one cell
ToDatetime(cell) ==
    CASE cell[1] = "str" -> IF cell[2] \in DateText THEN <<"ts", cell[2]>> ELSE NaN
      [] cell[1] = "num" -> <<"ts", cell[2]>>
      [] OTHER -> cell

DropNa(cells) == LET keep(x) == ~IsNull(x) IN SelectSeq(cells, keep)
FirstN(cells, n) == SubSeq(cells, 1, IF Len(cells) < n THEN Len(cells) ELSE n)

\* .iloc[:20]
SampleN == 20

\* the sample without .iloc[:20]: the whole column is parsed
DatetimeSample_WholeColumn(cells) == DropNa(cells)

\* sample = df[c].dropna().astype(str).iloc[:20]
DatetimeSample(cells) == FirstN(DropNa(cells), SampleN)

\* the body of "for c in df.columns": the dtype, or the sample parses
IsDatetimeLike(df, c) ==
    \/ df.dtypes[c] = "datetime64"
    \/ LET sample == DatetimeSample(Column(df, c))
       IN  \A i \in 1..Len(sample) : StrictParseOk(sample[i], df.num_text_parses)

DetectDatetimeCols(df) ==
    LET keep(c) == IsDatetimeLike(df, c) IN SelectSeq(TsColumns, keep)

\* df_dt[dt_col] = pd.to_datetime(df_dt[dt_col], errors="coerce")
CoerceColumn(df, c) ==
    [df EXCEPT !.rows = [i \in 1..Len(df.rows) |-> [df.rows[i] EXCEPT ![c] = ToDatetime(@)]],
               !.dtypes[c] = "datetime64"]

\* df_dt.dropna(subset=[dt_col])
DropNaRows(rows, c) == LET keep(r) == ~IsNull(r[c]) IN SelectSeq(rows, keep)

InsertAt(s, p, e) == SubSeq(s, 1, p) \o <<e>> \o SubSeq(s, p + 1, Len(s))

\* df_dt.sort_values(dt_col): ascending; the default sort is not stable, so
\* rows with equal timestamps come out in any order
RECURSIVE SortValues(_, _)
SortValues(rows, c) ==
    IF rows = << >> THEN {<< >>}
    ELSE LET e == rows[Len(rows)]
             k == TsOrder(e[c][2])
         IN  UNION {{InsertAt(s, p, e) :
                        p \in {q \in 0..Len(s) :
                                /\ \A j \in 1..q : TsOrder(s[j][c][2]) <= k
                                /\ \A j \in (q + 1)..Len(s) : TsOrder(s[j][c][2]) >= k}} :
                    s \in SortValues(SubSeq(rows, 1, Len(rows) - 1), c)}

\* df_dt.select_dtypes(include=[np.number]).columns.tolist()
NumericCols(df) ==
    LET keep(c) == IsNumberDtype(df.dtypes[c]) IN SelectSeq(TsColumns, keep)

\* st.slider("Rolling window (periods)", 1, 100, 7)
WindowMin == 1
WindowMax == 100
WindowChoices == {w \in WindowMin..WindowMax : w <= MaxWindow}

\* rolling(window, min_periods=1)
MinPeriods == 1

\* one output of the rolling mean: the sum and the number of observations in
\* the window, NaN (no observation counted) below min_periods
CalcMean(minp, nobs, sum_x) ==
    IF nobs >= minp /\ nobs > 0 THEN [sum |-> sum_x, nobs |-> nobs] ELSE [sum |-> 0, nobs |-> 0]

\* the sliding computation: the value entering the window is added, the one
\* leaving it is removed, NaN is skipped by both
RECURSIVE Roll(_, _, _, _, _, _, _)
Roll(vals, w, minp, i, sum_x, nobs, out) ==
    IF i > Len(vals) THEN out
    ELSE LET add == ~IsNull(vals[i])
             rem == i - w >= 1 /\ ~IsNull(vals[i - w])
             sum1 == sum_x + (IF add THEN NumValue(vals[i][2]) ELSE 0)
                          - (IF rem THEN NumValue(vals[i - w][2]) ELSE 0)
             nobs1 == nobs + (IF add THEN 1 ELSE 0) - (IF rem THEN 1 ELSE 0)
         IN  Roll(vals, w, minp, i + 1, sum1, nobs1, Append(out, CalcMean(minp, nobs1, sum1)))

\* rolling(window) with the default min_periods, which is the window
RollingMean_DefaultMinPeriods(vals, w) == Roll(vals, w, w, 1, 0, 0, << >>)

\* df_dt[val_col].rolling(window, min_periods=1).mean()
RollingMean(vals, w) == Roll(vals, w, MinPeriods, 1, 0, 0, << >>)

NotNullCount(cells) == Len(DropNa(cells))

TsCell(kind, text) == IF text = "" THEN NaN ELSE <<kind, text>>
TsRow(t, v) == [t |-> TsCell("str", t), v |-> TsCell("num", v)]

\* tables for the rolling mean: a few rows of any dates and values
RollRowSet == {TsRow(t, v) : t \in {"d1", "d2", "abc"}, v \in {"1", "2", ""}}
ExampleRows == <<TsRow("d1", "1"), TsRow("d2", "2"), TsRow("d3", "3"),
                 TsRow("d4", "4"), TsRow("d5", "5")>>
RollTables == SeqsUpTo(RollRowSet, 0, MaxRollRows) \cup {ExampleRows}

\* tables for the detection: 0, 19 or 20 rows that parse, after nothing, a
\* missing date or a date that does not parse, and before a few rows of any
\* dates
TailRowSet == {TsRow(t, v) : t \in {"d1", "abc", ""}, v \in {"1", ""}}
HeadChoices == {<< >>, <<TsRow("", "1")>>, <<TsRow("abc", "1")>>}
LongTables ==
    {h \o [i \in 1..k |-> TsRow("d0", "1")] \o tail :
        h \in HeadChoices, k \in {0, SampleN - 1, SampleN},
        tail \in SeqsUpTo(TailRowSet, 0, MaxTail)}

\* whether the text of a number parses as a date is left open for the short
\* tables; for the long ones it does not
TsStart ==
    /\ \E rows \in RollTables \cup LongTables, tdtype \in {"object", "datetime64"},
          ntp \in BOOLEAN :
        LET df == [dtypes |-> [t |-> "object", v |-> "float64"], rows |-> rows,
                   num_text_parses |-> ntp]
        IN  /\ ntp => rows \in RollTables
            /\ tsDf = IF tdtype = "object" THEN df ELSE CoerceColumn(df, "t")
    /\ tsPc = "start"
    /\ datetime_cols = << >>
    /\ dt_col = ""
    /\ df_dt = << >>
    /\ val_col = ""
    /\ window = 0
    /\ rolling = [drawn |-> FALSE, values |-> << >>]
    /\ tsMsg = ""

TsOff ==
    /\ tsDf = << >> /\ tsPc = "off" /\ datetime_cols = << >> /\ dt_col = "" /\ df_dt = << >>
    /\ val_col = "" /\ window = 0 /\ rolling = [drawn |-> FALSE, values |-> << >>] /\ tsMsg = ""

\* the detection loop over df.columns
TsDetect ==
    /\ tsPc = "start"
    /\ datetime_cols' = DetectDatetimeCols(tsDf)
    /\ tsPc' = "detected"
    /\ UNCHANGED <<tsDf, dt_col, df_dt, val_col, window, rolling, tsMsg>>
    /\ TsOnly

\* if len(datetime_cols) == 0: report and return
TsNoneDetected ==
    /\ tsPc = "detected"
    /\ Len(datetime_cols) = 0
    /\ tsMsg' = "No datetime-like columns detected."
    /\ tsPc' = "done"
    /\ UNCHANGED <<tsDf, datetime_cols, dt_col, df_dt, val_col, window, rolling>>
    /\ TsOnly

\* the chosen datetime column: the copy is coerced, cleaned and sorted
TsChooseDatetime ==
    /\ tsPc = "detected"
    /\ Len(datetime_cols) > 0
    /\ \E c \in Range(datetime_cols) :
        LET coerced == CoerceColumn(tsDf, c)
        IN  \E sorted \in SortValues(DropNaRows(coerced.rows, c), c) :
                /\ dt_col' = c
                /\ df_dt' = [coerced EXCEPT !.rows = sorted]
    /\ tsPc' = "sorted"
    /\ UNCHANGED <<tsDf, datetime_cols, val_col, window, rolling, tsMsg>>
    /\ TsOnly

\* if len(numeric_cols) == 0: report and return
TsNoNumeric ==
    /\ tsPc = "sorted"
    /\ Len(NumericCols(df_dt)) = 0
    /\ tsMsg' = "No numeric columns to plot against datetime."
    /\ tsPc' = "done"
    /\ UNCHANGED <<tsDf, datetime_cols, dt_col, df_dt, val_col, window, rolling>>
    /\ TsOnly

\* the chosen value column and window: the raw series and the rolling mean
TsPlotRolling ==
    /\ tsPc = "sorted"
    /\ \E c \in Range(NumericCols(df_dt)), w \in WindowChoices :
        /\ NotNullCount(Column(df_dt, c)) >= w
        /\ val_col' = c
        /\ window' = w
        /\ rolling' = [drawn |-> TRUE, values |-> RollingMean(Column(df_dt, c), w)]
    /\ tsPc' = "plotted"
    /\ UNCHANGED <<tsDf, datetime_cols, dt_col, df_dt, tsMsg>>
    /\ TsOnly

\* the chosen value column has fewer values than the window: the raw series
TsPlotRaw ==
    /\ tsPc = "sorted"
    /\ \E c \in Range(NumericCols(df_dt)), w \in WindowChoices :
        /\ NotNullCount(Column(df_dt, c)) < w
        /\ val_col' = c
        /\ window' = w
        /\ rolling' = [drawn |-> FALSE, values |-> << >>]
    /\ tsPc' = "plotted"
    /\ UNCHANGED <<tsDf, datetime_cols, dt_col, df_dt, tsMsg>>
    /\ TsOnly

(***************************************************************************)
(* show_categorical                                                        *)
(***************************************************************************)
CatValues == {"a", "b", "c", "d"}
CatCells == {<<"str", v>> : v \in CatValues} \cup {NaN}
CatExample == <<(<<"str", "a">>), (<<"str", "a">>), (<<"str", "b">>),
                (<<"str", "c">>), (<<"str", "a">>), (<<"str", "b">>)>>

\* the frequency table of a column: NaN is dropped, the values are kept in
\* the order of their first appearance
RECURSIVE CountValues(_, _, _)
CountValues(cells, i, acc) ==
    IF i > Len(cells) THEN acc
    ELSE IF IsNull(cells[i]) THEN CountValues(cells, i + 1, acc)
    ELSE LET v == cells[i][2]
             seen == {k \in 1..Len(acc) : acc[k].name = v}
         IN  IF seen = {}
             THEN CountValues(cells, i + 1, Append(acc, [name |-> v, count |-> 1]))
             ELSE LET k == CHOOSE k \in seen : TRUE
                  IN  CountValues(cells, i + 1, [acc EXCEPT ![k].count = @ + 1])

\* cat[col].value_counts(): most frequent first, equal counts in the order of
\* first appearance
ValueCounts(cells) == SortCountsDesc(CountValues(cells, 1, << >>))

\* .nlargest(top_n, keep="last"): equal counts are taken from the end
NLargest_KeepLast(freq, n) ==
    FirstN(SortCountsDesc([i \in 1..Len(freq) |-> freq[Len(freq) + 1 - i]]), n)

\* .nlargest(top_n): the n largest counts, keep="first"
NLargest(freq, n) == FirstN(SortCountsDesc(freq), n)

\* df[df[col] == ix].head(1): the first row holding the value
FirstRowOf(cells, v) ==
    CHOOSE i \in 1..Len(cells) :
        /\ cells[i] = <<"str", v>>
        /\ \A j \in 1..(i - 1) : cells[j] # <<"str", v>>

\* st.slider("Show top N categories", 3, 50, 10)
TopNMin == 3
TopNMax == 50
TopNChoices == {n \in TopNMin..TopNMax : n <= MaxTopN}

CatStart ==
    /\ catCol \in SeqsUpTo(CatCells, 0, MaxCatRows) \cup {CatExample}
    /\ catPc = "start"
    /\ top_n = 0
    /\ cat_counts = << >>
    /\ samples = << >>

CatOff == catCol = << >> /\ catPc = "off" /\ top_n = 0 /\ cat_counts = << >> /\ samples = << >>

\* no object column (or no rows): "No categorical columns detected."
CatNone ==
    /\ catPc = "start"
    /\ Dtype(catCol) # "object" \/ Len(catCol) = 0
    /\ catPc' = "none"
    /\ UNCHANGED <<catCol, top_n, cat_counts, samples>>
    /\ CatOnly

\* the chart of the top N values and one sample row for each
ShowCategorical ==
    /\ catPc = "start"
    /\ Dtype(catCol) = "object" /\ Len(catCol) > 0
    /\ \E n \in TopNChoices :
        LET freq == NLargest(ValueCounts(catCol), n)
        IN  /\ top_n' = n
            /\ cat_counts' = freq
            /\ samples' = [k \in 1..Len(freq) |-> FirstRowOf(catCol, freq[k].name)]
    /\ catPc' = "done"
    /\ UNCHANGED catCol
    /\ CatOnly

(***************************************************************************)
(* show_text_analysis                                                      *)
(***************************************************************************)
\* a text is a sequence of characters; a cell is a text or missing
Chars == {"a", "B", ".", " "}
Whitespace == {" "}
Punctuation == {".", ",", "!", "?", ":", ";", "(", ")", "[", "]", "\"", "'"}
NullText == [null |-> TRUE, text |-> << >>]
TextCells == {[null |-> FALSE, text |-> t] : t \in SeqsUpTo(Chars, 1, MaxCellLen)} \cup {NullText}

\* str.lower() of one character
LowerChar(ch) == IF ch = "B" THEN "b" ELSE ch
Lower(w) == [i \in 1..Len(w) |-> LowerChar(w[i])]

\* str.strip(chars): leading and trailing characters of the set are removed
StripChars(w, chars) ==
    LET keep == {i \in 1..Len(w) : w[i] \notin chars}
    IN  IF keep = {} THEN << >>
        ELSE SubSeq(w, CHOOSE i \in keep : \A j \in keep : i <= j,
                       CHOOSE i \in keep : \A j \in keep : i >= j)

\* str.split(): the maximal runs of non-whitespace characters
RECURSIVE SplitFrom(_, _, _, _)
SplitFrom(text, i, cur, out) ==
    IF i > Len(text)
    THEN IF cur = << >> THEN out ELSE Append(out, cur)
    ELSE IF text[i] \in Whitespace
    THEN SplitFrom(text, i + 1, << >>, IF cur = << >> THEN out ELSE Append(out, cur))
    ELSE SplitFrom(text, i + 1, Append(cur, text[i]), out)
Split(text) == SplitFrom(text, 1, << >>, << >>)

\* " ".join(list)
RECURSIVE Join(_)
Join(list) ==
    IF list = << >> THEN << >>
    ELSE IF Len(list) = 1 THEN list[1]
    ELSE list[1] \o <<" ">> \o Join(Tail(list))

\* .head(100)
TextHead == 100

\* sample_text = " ".join(df[col].dropna().astype(str).head(100).tolist())
SampleText(cells) ==
    LET present(x) == ~x.null
        kept == FirstN(SelectSeq(cells, present), TextHead)
    IN  Join([i \in 1..Len(kept) |-> kept[i].text])

\* the length filter applied after the punctuation is stripped
Words_FilterAfterStrip(text) ==
    LET tokens == Split(text)
        stripped == [i \in 1..Len(tokens) |-> StripChars(Lower(tokens[i]), Punctuation)]
        long(w) == Len(w) > 2
    IN  SelectSeq(stripped, long)

\* [w.lower().strip(".,!?:;()[]\"'") for w in sample_text.split() if len(w) > 2]
Words(text) ==
    LET long(w) == Len(w) > 2
        tokens == SelectSeq(Split(text), long)
    IN  [i \in 1..Len(tokens) |-> StripChars(Lower(tokens[i]), Punctuation)]

\* Counter(words): the counts, in the order the words are first met
RECURSIVE CountWords(_, _, _)
CountWords(ws, i, acc) ==
    IF i > Len(ws) THEN acc
    ELSE LET seen == {k \in 1..Len(acc) : acc[k].name = ws[i]}
         IN  IF seen = {}
             THEN CountWords(ws, i + 1, Append(acc, [name |-> ws[i], count |-> 1]))
             ELSE LET k == CHOOSE k \in seen : TRUE
                  IN  CountWords(ws, i + 1, [acc EXCEPT ![k].count = @ + 1])

\* c.most_common(20)
TopWords == 20
MostCommon(ws, n) == FirstN(SortCountsDesc(CountWords(ws, 1, << >>)), n)

\* the column has object dtype: some cell holds a text
HasText(cells) == ~(\A i \in 1..Len(cells) : cells[i].null)

TextStart ==
    /\ textCol \in SeqsUpTo(TextCells, 0, MaxTextCells)
    /\ textPc = "start"
    /\ sample_text = << >>
    /\ words = << >>
    /\ top = << >>

TextOff == textCol = << >> /\ textPc = "off" /\ sample_text = << >> /\ words = << >> /\ top = << >>

\* no object column: "No text columns detected."
TextNoColumn ==
    /\ textPc = "start"
    /\ ~HasText(textCol)
    /\ textPc' = "none"
    /\ UNCHANGED <<textCol, sample_text, words, top>>
    /\ TextOnly

\* the sample is blank: "Selected column contains no textual data."
TextBlank ==
    /\ textPc = "start"
    /\ HasText(textCol)
    /\ StripChars(SampleText(textCol), Whitespace) = << >>
    /\ sample_text' = SampleText(textCol)
    /\ textPc' = "blank"
    /\ UNCHANGED <<textCol, words, top>>
    /\ TextOnly

\* the word cloud and the chart of the 20 most frequent words
ShowTextAnalysis ==
    /\ textPc = "start"
    /\ HasText(textCol)
    /\ StripChars(SampleText(textCol), Whitespace) # << >>
    /\ sample_text' = SampleText(textCol)
    /\ words' = Words(SampleText(textCol))
    /\ top' = MostCommon(Words(SampleText(textCol)), TopWords)
    /\ textPc' = "done"
    /\ UNCHANGED textCol
    /\ TextOnly

(***************************************************************************)
(* Specifications: one per entry point                                     *)
(***************************************************************************)
InitLoad == LoadStart /\ AppOff /\ OvOff /\ TsOff /\ CatOff /\ TextOff
NextLoad ==
    \/ CallCacheHit
    \/ CallCacheMiss
    \/ ReadDefault
    \/ ReadLatin1
    \/ DedupColumns
SpecLoad == InitLoad /\ [][NextLoad]_vars

InitApp == AppStart /\ LoadOff /\ OvOff /\ TsOff /\ CatOff /\ TextOff
NextApp ==
    \/ AppReadCsv
    \/ AppReadCsvFails
    \/ AppToNumeric
    \/ AppKeyError
    \/ AppComponentReturns
    \/ AppComponentRaises
    \/ AppRender
SpecApp == InitApp /\ [][NextApp]_vars

InitOverview == OvStart /\ LoadOff /\ AppOff /\ TsOff /\ CatOff /\ TextOff
NextOverview ==
    \/ OvLoad
    \/ ShowOverview
    \/ ShowMissingNone
    \/ ShowMissing
SpecOverview == InitOverview /\ [][NextOverview]_vars

InitTimeSeries == TsStart /\ LoadOff /\ AppOff /\ OvOff /\ CatOff /\ TextOff
NextTimeSeries ==
    \/ TsDetect
    \/ TsNoneDetected
    \/ TsChooseDatetime
    \/ TsNoNumeric
    \/ TsPlotRolling
    \/ TsPlotRaw
SpecTimeSeries == InitTimeSeries /\ [][NextTimeSeries]_vars

InitCategorical == CatStart /\ LoadOff /\ AppOff /\ OvOff /\ TsOff /\ TextOff
NextCategorical ==
    \/ CatNone
    \/ ShowCategorical
SpecCategorical == InitCategorical /\ [][NextCategorical]_vars

InitText == TextStart /\ LoadOff /\ AppOff /\ OvOff /\ TsOff /\ CatOff
NextText ==
    \/ TextNoColumn
    \/ TextBlank
    \/ ShowTextAnalysis
SpecText == InitText /\ [][NextText]_vars

(***************************************************************************)
(* Claims about load_data                                                  *)
(***************************************************************************)
Distinct(s) == \A i, j \in 1..Len(s) : i # j => s[i] # s[j]
FirstOccurrence(s, i) == \A j \in 1..(i - 1) : s[j] # s[i]
Repeated(s, i) == \E j \in 1..Len(s) : j # i /\ s[j] = s[i]
EarlierColumns(d, k) == {d.columns[j] : j \in 1..(k - 1)}
TableResults == {results[i].df : i \in {j \in 1..Len(results) : results[j].status = "table"}}

CanParse(encoding) == FirstOffending(FileLines(uploaded_file), encoding) = 0
WholeTable ==
    LET d == ParseLines(FileLines(uploaded_file))
    IN  [d EXCEPT !.columns = MaybeDedupNames(d.columns)]

\* C2: the first load makes at most two parse attempts, the second only after
\* the first failed and on the same full input; it ends in a failure only if
\* the full input parses under neither encoding, and a Table it returns is
\* the Table of the whole input.
C2_TwoAttemptsOnFullInput ==
    Len(results) >= 1 =>
        LET r == results[1]
        IN  /\ r.attempts <= 2
            /\ r.attempts = 2 => ~CanParse("utf-8")
            /\ r.status = "error" => ~CanParse("utf-8") /\ ~CanParse("latin1")
            /\ r.status = "table" => r.df = WholeTable

\* C3: two calls, one after the other, on the same valid input return the
\* same Table.
C3_LoadIdempotent ==
    (Len(results) >= 2 /\ CanParse("utf-8")) =>
        /\ results[1].status = "table"
        /\ results[2].status = "table"
        /\ results[2].df = results[1].df

(***************************************************************************)
(* Claims about app.py                                                     *)
(***************************************************************************)
\* C4: once the upload is parsed, a failure raised inside one analysis or
\* plotting component is local to it: when the script is done, every other
\* component has run.
C4_ComponentFailureIsLocal ==
    (appPc = AppDone /\ appFailed # {}) => (AppComponents \ appFailed) \subseteq appRan

\* C5: the Table keeps the rows, columns and cell values it had when the
\* load returned.
C5_TableReadOnly ==
    appPc > 1 => appDf = appLoaded

(***************************************************************************)
(* Claims about show_overview and show_missing                             *)
(***************************************************************************)
AllMissing(c) == FrameRows(ovDf) > 0 /\ \A i \in 1..FrameRows(ovDf) : IsNull(ovDf[c][i])
DescribedColumns == {overview.described[i].name : i \in 1..Len(overview.described)}

\* C9: a column whose cells are all missing is reported with a missing count
\* equal to the row count and is not among the columns for which numeric
\* descriptive statistics are produced.
C9_AllMissingColumn ==
    ovPc = "done" =>
        \A c \in Range(OvColumns) :
            AllMissing(c) =>
                /\ \E i \in 1..Len(missing.chart) :
                        missing.chart[i] = [name |-> c, count |-> overview.rows]
                /\ c \notin DescribedColumns

(***************************************************************************)
(* Claims about show_time_series                                           *)
(***************************************************************************)
WindowRows(i, w) == {j \in 1..i : j >= i - w + 1}
ValuesIn(vals, rows) == {j \in rows : ~IsNull(vals[j])}
RowsAscending ==
    \A i, j \in 1..Len(df_dt.rows) :
        i < j => TsOrder(df_dt.rows[i][dt_col][2]) <= TsOrder(df_dt.rows[j][dt_col][2])

\* C7: for a window W in 1..100 a rolling-mean series is plotted exactly when
\* the value series (rows ascending by timestamp) has at least W non-null
\* values; its value at row i is the mean of the values present at rows
\* max(1, i-W+1)..i (the sum over their number), and is missing only when
\* none of those rows has a value.
C7_RollingMean ==
    tsPc = "plotted" =>
        LET vals == Column(df_dt, val_col)
        IN  /\ window \in 1..100
            /\ RowsAscending
            /\ rolling.drawn <=> Cardinality(NonNull(vals)) >= window
            /\ rolling.drawn =>
                /\ Len(rolling.values) = Len(vals)
                /\ \A i \in 1..Len(vals) :
                    LET idx == ValuesIn(vals, WindowRows(i, window))
                        got == rolling.values[i]
                    IN  IF idx = {}
                        THEN got.nobs = 0
                        ELSE /\ got.nobs > 0
                             /\ got.sum * Cardinality(idx) = SumOver(vals, idx) * got.nobs

\* the series 1,2,3,4,5 with W=3 is plotted with the rolling means
\* 1, 3/2, 2, 3, 4
C7_Witness ==
    /\ tsPc = "plotted"
    /\ window = 3
    /\ Column(df_dt, "v") = <<(<<"num", "1">>), (<<"num", "2">>), (<<"num", "3">>),
                              (<<"num", "4">>), (<<"num", "5">>)>>
    /\ rolling = [drawn |-> TRUE,
                  values |-> <<[sum |-> 1, nobs |-> 1], [sum |-> 3, nobs |-> 2],
                               [sum |-> 6, nobs |-> 3], [sum |-> 9, nobs |-> 3],
                               [sum |-> 12, nobs |-> 3]>>]

SampledRows(cells) ==
    {i \in NonNull(cells) : Cardinality({j \in NonNull(cells) : j < i}) < 20}

\* C10: a column is offered as datetime-like if and only if its dtype is a
\* timestamp type or every one of its first (up to 20) non-missing values
\* parses; "No datetime-like columns detected." is reported exactly when no
\* column qualifies.
C10_DatetimeDetection ==
    tsPc \notin {"start", "off"} =>
        /\ \A k \in 1..Len(TsColumns) :
            LET c == TsColumns[k]
                cells == Column(tsDf, c)
            IN  (c \in Range(datetime_cols)) <=>
                    \/ tsDf.dtypes[c] = "datetime64"
                    \/ \A i \in SampledRows(cells) :
                            StrictParseOk(cells[i], tsDf.num_text_parses)
        /\ tsPc # "detected" =>
                ((tsMsg = "No datetime-like columns detected.") <=> datetime_cols = << >>)

\* a text column is offered although its 21st non-missing value does not parse
C10_Witness ==
    /\ tsPc = "detected"
    /\ tsDf.dtypes["t"] = "object"
    /\ "t" \in Range(datetime_cols)
    /\ LET cells == Column(tsDf, "t")
       IN  \E i \in NonNull(cells) :
            /\ Cardinality({j \in NonNull(cells) : j < i}) = 20
            /\ ~StrictParseOk(cells[i], tsDf.num_text_parses)

(***************************************************************************)
(* Claims about show_categorical                                           *)
(***************************************************************************)
Occurrences(cells, v) == Cardinality({i \in 1..Len(cells) : cells[i] = <<"str", v>>})
PresentValues(cells) == {v \in CatValues : Occurrences(cells, v) > 0}
\* v ranks before u: more frequent, or as frequent and met first
RanksBefore(cells, v, u) ==
    \/ Occurrences(cells, v) > Occurrences(cells, u)
    \/ /\ Occurrences(cells, v) = Occurrences(cells, u)
       /\ FirstRowOf(cells, v) < FirstRowOf(cells, u)
Min2(a, b) == IF a < b THEN a ELSE b

====
